---- MODULE Spec2Model ----
(***************************************************************************)
(* Model of github/githubclient/client.go of spr: the branch-name codec,   *)
(* the snapshot fetch (GetInfo), the ordering of the stack                 *)
(* (sortPullRequests), the pull-request body formatter and the remote      *)
(* mutations (create, update, add reviewers, comment, merge, close).       *)
(*                                                                         *)
(* A Go string is a sequence of one-character strings, so that the regular *)
(* expression and the string functions are computed character by           *)
(* character.  A nil slice or nil pointer is the empty sequence.  The name *)
(* of the local branch (getLocalBranchName), the configuration and the     *)
(* answers of the remote are inputs.                                       *)
(***************************************************************************)
EXTENDS Integers, Sequences, FiniteSets, TLC

VARIABLES
    codec,      \* the codec run: inputs, branchNameFromCommit's result, the decoding
    sorter,     \* the sortPullRequests run: the slice before and after
    fetch,      \* the GetInfo run: the remote response and the snapshot built
    format,     \* the formatBody run: commit, stack and the rendered body
    remote,     \* the pull requests the remote host stores
    info,       \* the snapshot (GitHubInfo) of the current pass
    pass,       \* the position of the current pass of the driver
    calls       \* the remote mutations the current process has issued

vars == <<codec, sorter, fetch, format, remote, info, pass, calls>>

----------------------------------------------------------------------------
(* Bounds of the model.                                                    *)

MaxUserLen == 2
MaxBranchLen == 3
MaxPRs == 3
MaxNodes == 2
MaxStack == 3
MaxPasses == 2
MaxExtraCalls == 1

----------------------------------------------------------------------------
(* Strings.                                                                *)

Lower == {"a","b","c","d","e","f","g","h","i","j","k","l","m",
          "n","o","p","q","r","s","t","u","v","w","x","y","z"}
Upper == {"A","B","C","D","E","F","G","H","I","J","K","L","M",
          "N","O","P","Q","R","S","T","U","V","W","X","Y","Z"}
Digit == {"0","1","2","3","4","5","6","7","8","9"}

\* [a-zA-Z0-9_\-]
UserClass == Lower \cup Upper \cup Digit \cup {"_", "-"}
\* [a-zA-Z0-9_\-/\.]
BranchClass == UserClass \cup {"/", "."}
\* [a-f0-9]
HexClass == {"a","b","c","d","e","f"} \cup Digit
\* the {8} of the fingerprint group
FpLen == 8

AllIn(s, lo, hi, class) == \A k \in lo..hi : s[k] \in class

\* All sequences over alphabet of length lo..hi.
SeqsOf(alphabet, lo, hi) == UNION {[1..n -> alphabet] : n \in lo..hi}

Max(S) == CHOOSE x \in S : \A y \in S : y <= x
Min(S) == CHOOSE x \in S : \A y \in S : x <= y

----------------------------------------------------------------------------
(* The branch identity codec.                                              *)

\* BranchNameRegex = pr/[a-zA-Z0-9_\-]+/([a-zA-Z0-9_\-/\.]+)/([a-f0-9]{8})$
\* tried at start position i of s.  UserEnds: the last positions e of a user
\* run s[i+3..e] that a "/" follows.
UserEnds(s, i) ==
    {e \in (i + 3)..(Len(s) - 1) : s[e + 1] = "/" /\ AllIn(s, i + 3, e, UserClass)}

\* GroupEnds: the last positions g of a first group s[e+2..g] that "/", the
\* eight characters of the fingerprint and the end of the text ($) follow.
GroupEndsNoSlash(s, e) ==
    {g \in (e + 2)..(Len(s) - 1) :
        /\ g + 1 + FpLen = Len(s)
        /\ s[g + 1] = "/"
        /\ AllIn(s, e + 2, g, BranchClass \ {"/"})
        /\ AllIn(s, g + 2, Len(s), HexClass)}

GroupEnds(s, e) ==
    {g \in (e + 2)..(Len(s) - 1) :
        /\ g + 1 + FpLen = Len(s)
        /\ s[g + 1] = "/"
        /\ AllIn(s, e + 2, g, BranchClass)
        /\ AllIn(s, g + 2, Len(s), HexClass)}

\* The start positions at which the pattern matches: the literal pr/, a user
\* run and a first group with the rest matching.
RegexStarts(s) ==
    { i \in 1..(Len(s) - 2) :
        /\ SubSeq(s, i, i + 2) = <<"p", "r", "/">>
        /\ \E e \in UserEnds(s, i) : GroupEnds(s, e) # {} }

\* BranchNameRegex.FindStringSubmatch(s): the leftmost match, both + greedy (the
\* longest user run first, then the longest first group).  The result is
\* <<whole match, group 1, group 2>>, Go's matches[0..2]; no match is <<>>.
FindStringSubmatch(s) ==
    LET starts == RegexStarts(s) IN
    IF starts = {} THEN <<>>
    ELSE LET i  == Min(starts)
             e  == Max({x \in UserEnds(s, i) : GroupEnds(s, x) # {}})
             g  == Max(GroupEnds(s, e))
         IN  <<SubSeq(s, i, Len(s)), SubSeq(s, e + 2, g), SubSeq(s, g + 2, Len(s))>>

\* "pr/" + info.UserName + "/" + info.LocalBranch + "/" + commit.CommitID
branchNameFromCommit(inf, commit) ==
    <<"p", "r", "/">> \o inf.UserName \o <<"/">> \o inf.LocalBranch
        \o <<"/">> \o commit.CommitID

----------------------------------------------------------------------------
(* The codec run: encode a branch identity, then decode the name.          *)

Fingerprints == { <<"0","0","0","0","0","0","0","a">>,
                  <<"d","e","a","d","b","e","e","f">> }

CodecUsers == SeqsOf({"p", "r", "-"}, 1, MaxUserLen)
CodecBranches == SeqsOf({"p", "r", "/", "."}, 1, MaxBranchLen)

CodecIdle == [pc |-> "idle", UserName |-> <<>>, LocalBranch |-> <<>>,
              CommitID |-> <<>>, name |-> <<>>, matches |-> <<>>]

CodecInit ==
    \E u \in CodecUsers, b \in CodecBranches, f \in Fingerprints :
        codec = [pc |-> "start", UserName |-> u, LocalBranch |-> b,
                 CommitID |-> f, name |-> <<>>, matches |-> <<>>]

Encode ==
    /\ codec.pc = "start"
    /\ codec' = [codec EXCEPT !.pc = "encoded",
                              !.name = branchNameFromCommit(codec, codec)]
    /\ UNCHANGED <<sorter, fetch, format, remote, info, pass, calls>>

Decode ==
    /\ codec.pc = "encoded"
    /\ codec' = [codec EXCEPT !.pc = "decoded",
                              !.matches = FindStringSubmatch(codec.name)]
    /\ UNCHANGED <<sorter, fetch, format, remote, info, pass, calls>>

----------------------------------------------------------------------------
(* Pull requests and the ordering of the stack.                            *)

\* github.PullRequest.Ready: an entry is ready when the checks pass, the
\* review is approved and there are no conflicts.
Ready(pr, config) ==
    /\ pr.MergeStatus.ChecksPass = "pass"
    /\ pr.MergeStatus.ReviewApproved
    /\ pr.MergeStatus.NoConflicts

\* A swap that forgets its buffer: prs[i] is overwritten and lost.
swapLost(prs, i, j) == [prs EXCEPT ![i] = prs[j]]

\* swap of sortPullRequests: exchange prs[i] and prs[j].
swap(prs, i, j) == [prs EXCEPT ![i] = prs[j], ![j] = prs[i]]

\* The first loop of sortPullRequests, from index i on with the current
\* target: the first j >= i whose ToBranch is the target is swapped to i and
\* its FromBranch becomes the target; with no such j the index moves on.
RECURSIVE sortLoop(_, _, _)
sortLoop(prs, i, targetBranch) ==
    IF i > Len(prs) THEN prs
    ELSE LET hits == {j \in i..Len(prs) : prs[j].ToBranch = targetBranch}
         IN  IF hits = {} THEN sortLoop(prs, i + 1, targetBranch)
             ELSE sortLoop(swap(prs, i, Min(hits)), i + 1,
                           prs[Min(hits)].FromBranch)

\* The second loop of sortPullRequests, from index k on: Stacked is set
\* while the entries are ready, and the loop breaks at the first that is not.
RECURSIVE stackedLoop(_, _, _)
stackedLoop(prs, k, config) ==
    IF k > Len(prs) THEN prs
    ELSE IF Ready(prs[k], config)
         THEN stackedLoop([prs EXCEPT ![k].MergeStatus.Stacked = TRUE], k + 1, config)
         ELSE prs

\* An ordering whose first loop never advances the target to the FromBranch
\* of the entry it matched.
RECURSIVE sortLoopKeepTarget(_, _, _)
sortLoopKeepTarget(prs, i, targetBranch) ==
    IF i > Len(prs) THEN prs
    ELSE LET hits == {j \in i..Len(prs) : prs[j].ToBranch = targetBranch}
         IN  IF hits = {} THEN sortLoopKeepTarget(prs, i + 1, targetBranch)
             ELSE sortLoopKeepTarget(swap(prs, i, Min(hits)), i + 1, targetBranch)

sortPullRequestsKeepTarget(prs, config, targetBranch) ==
    stackedLoop(sortLoopKeepTarget(prs, 1, targetBranch), 1, config)

\* A second loop that goes on past an entry that is not ready (continue
\* instead of break).
RECURSIVE stackedLoopContinue(_, _, _)
stackedLoopContinue(prs, k, config) ==
    IF k > Len(prs) THEN prs
    ELSE IF Ready(prs[k], config)
         THEN stackedLoopContinue([prs EXCEPT ![k].MergeStatus.Stacked = TRUE],
                                  k + 1, config)
         ELSE stackedLoopContinue(prs, k + 1, config)

sortPullRequestsContinue(prs, config, targetBranch) ==
    stackedLoopContinue(sortLoop(prs, 1, targetBranch), 1, config)

\* An ordering whose second loop sets the flag on a copy of the entry, so that
\* no entry of the slice is marked.
sortPullRequestsOnCopy(prs, config, targetBranch) ==
    sortLoop(prs, 1, targetBranch)

sortPullRequests(prs, config, targetBranch) ==
    stackedLoop(sortLoop(prs, 1, targetBranch), 1, config)

----------------------------------------------------------------------------
(* The sortPullRequests run: a slice of pull requests of one stack, in any *)
(* order and with any links, is sorted for the trunk.                      *)

Main == <<"m", "a", "i", "n">>
UserU == <<"u">>
BranchB == <<"b">>
Fp(c) == <<"0", "0", "0", "0", "0", "0", "0", c>>

\* The head branches of the stack of local branch b, and a base branch that no
\* pull request of the slice has as its head (a closed pull request's).
HeadOf(c) == branchNameFromCommit([UserName |-> UserU, LocalBranch |-> BranchB],
                               [CommitID |-> Fp(c)])
SortHeads == {"a", "b", "c", "d"}
GoneBranch == <<"g", "o", "n", "e">>
SortBases == {Main, GoneBranch} \cup {HeadOf(c) : c \in SortHeads}

\* A pull request as GetInfo builds it (MergeStatus ready, Stacked not yet set).
SortPR(n, c, to) ==
    [ID |-> n, Number |-> n, Title |-> <<"t">>, FromBranch |-> HeadOf(c), ToBranch |-> to,
     Commit |-> [CommitID |-> Fp(c), CommitHash |-> <<"h">>,
                 Subject |-> <<"t">>, Body |-> <<>>],
     MergeStatus |-> [ChecksPass |-> "pass", ReviewApproved |-> TRUE,
                      NoConflicts |-> TRUE, Stacked |-> FALSE]]

Injective(f) == \A a, b \in DOMAIN f : a # b => f[a] # f[b]

\* A configuration whose trunk is main.
DefaultConfig == [GitHubBranch |-> Main, RemoteBranches |-> {}]

SorterIdle == [pc |-> "idle", prs |-> <<>>, out |-> <<>>]

\* The slices: 0..MaxPRs pull requests with distinct head branches, numbered
\* by their position in the input.
SorterInit ==
    \E n \in 0..MaxPRs :
        \E from \in [1..n -> SortHeads], to \in [1..n -> SortBases] :
            /\ Injective(from)
            /\ sorter = [pc |-> "start",
                         prs |-> [k \in 1..n |-> SortPR(k, from[k], to[k])],
                         out |-> <<>>]

Sort ==
    /\ sorter.pc = "start"
    /\ sorter' = [sorter EXCEPT !.pc = "sorted",
                                !.out = sortPullRequests(sorter.prs, DefaultConfig, Main)]
    /\ UNCHANGED <<codec, fetch, format, remote, info, pass, calls>>

----------------------------------------------------------------------------
(* The snapshot fetch.                                                     *)

\* GetRemoteBranchName: the local branch when the configuration lists it among
\* the remote branches, the configured trunk otherwise.
GetRemoteBranchName(localBranchName, repoConfig) ==
    IF localBranchName \in repoConfig.RemoteBranches
    THEN localBranchName
    ELSE repoConfig.GitHubBranch

\* The check status of a node's commit: fail unless the rollup says SUCCESS or
\* PENDING ("nil" is a nil StatusCheckRollup).
CheckStatusOf(rollup) ==
    IF rollup = "SUCCESS" THEN "pass"
    ELSE IF rollup = "PENDING" THEN "pending"
    ELSE "fail"

\* The pull request GetInfo builds of a node whose head branch decoded.
PullRequestOf(node, matches) ==
    [ID |-> node.Id, Number |-> node.Number, Title |-> node.Title,
     FromBranch |-> node.HeadRefName, ToBranch |-> node.BaseRefName,
     Commit |-> [CommitID |-> matches[3], CommitHash |-> node.Commit.Oid,
                 Subject |-> node.Commit.MessageHeadline,
                 Body |-> node.Commit.MessageBody],
     MergeStatus |-> [ChecksPass |-> CheckStatusOf(node.Commit.StatusCheckRollup),
                      ReviewApproved |-> node.ReviewDecision = "APPROVED",
                      NoConflicts |-> node.Mergeable = "MERGEABLE",
                      Stacked |-> FALSE]]

\* A filter that takes every head branch that decodes, whatever local branch
\* it names.
KeepsAnyBranch(node, repositoryId, branchname) ==
    /\ node.RepositoryId = repositoryId
    /\ FindStringSubmatch(node.HeadRefName) # <<>>

\* The condition under which GetInfo appends a node to requests: the node is
\* of the queried repository, its head branch decodes and the local branch
\* decoded is the active one.
Keeps(node, repositoryId, branchname) ==
    /\ node.RepositoryId = repositoryId
    /\ FindStringSubmatch(node.HeadRefName) # <<>>
    /\ FindStringSubmatch(node.HeadRefName)[2] = branchname

\* The loop of GetInfo over the nodes of the response, from node k on.
RECURSIVE requestsFrom(_, _, _)
requestsFrom(resp, k, branchname) ==
    IF k > Len(resp.Nodes) THEN <<>>
    ELSE IF Keeps(resp.Nodes[k], resp.RepositoryId, branchname)
         THEN <<PullRequestOf(resp.Nodes[k], FindStringSubmatch(resp.Nodes[k].HeadRefName))>>
                  \o requestsFrom(resp, k + 1, branchname)
         ELSE requestsFrom(resp, k + 1, branchname)

\* GetInfo, the query having answered resp.
GetInfo(resp, branchname, config) ==
    [UserName |-> resp.Login,
     RepositoryID |-> resp.RepositoryId,
     LocalBranch |-> branchname,
     PullRequests |-> sortPullRequests(requestsFrom(resp, 1, branchname), config,
                                       GetRemoteBranchName(branchname, config))]

\* check(err): nothing on no error, os.Exit on 401 Unauthorized, panic on any
\* other error.  The result is what becomes of the process.
check(err) ==
    IF err = "none" THEN "running"
    ELSE IF err = "401 Unauthorized" THEN "exited"
    ELSE "panicked"

ApiErrors == {"none", "401 Unauthorized", "502 Bad Gateway"}

----------------------------------------------------------------------------
(* The GetInfo run: a response of up to MaxNodes nodes, in any order, is   *)
(* made into a snapshot.                                                   *)

BranchX == <<"x">>
FetchHeads == { HeadOf("a"), HeadOf("b"),
                <<"p", "r", "/", "u", "/", "x", "/">> \o Fp("c"),
                <<"f", "i", "x">> }
FetchBases == {Main, HeadOf("a")}
\* <<rollup state, review decision, mergeable>>; "nil" is a nil pointer
FetchSignals == { <<"SUCCESS", "APPROVED", "MERGEABLE">>,
                  <<"PENDING", "APPROVED", "MERGEABLE">>,
                  <<"nil", "APPROVED", "MERGEABLE">>,
                  <<"SUCCESS", "nil", "MERGEABLE">>,
                  <<"SUCCESS", "APPROVED", "CONFLICTING">> }
NodeShapes ==
    (FetchHeads \X FetchBases \X FetchSignals \X {"R1"})
        \cup {<<HeadOf("a"), Main, <<"SUCCESS", "APPROVED", "MERGEABLE">>, "R2">>}

NodeOf(n, shape) ==
    [Id |-> n, Number |-> n, Title |-> <<"t">>,
     HeadRefName |-> shape[1], BaseRefName |-> shape[2], RepositoryId |-> shape[4],
     Commit |-> [Oid |-> <<"h">>, MessageHeadline |-> <<"t">>, MessageBody |-> <<>>,
                 StatusCheckRollup |-> shape[3][1]],
     ReviewDecision |-> shape[3][2], Mergeable |-> shape[3][3]]

\* The local branch x is a remote branch of the configuration, b is not.
FetchConfig == [GitHubBranch |-> Main, RemoteBranches |-> {BranchX}]

FetchIdle == [pc |-> "idle", resp |-> <<>>, branchname |-> <<>>, info |-> <<>>]

FetchInit ==
    \E n \in 0..MaxNodes :
        \E shapes \in [1..n -> NodeShapes], branchname \in {BranchB, BranchX} :
            fetch = [pc |-> "start",
                     resp |-> [Login |-> UserU, RepositoryId |-> "R1",
                               Nodes |-> [k \in 1..n |-> NodeOf(k, shapes[k])]],
                     branchname |-> branchname,
                     info |-> <<>>]

\* GetInfo: the query fails (check ends the process) or answers, and the
\* snapshot is built of the answer.
Fetch ==
    /\ fetch.pc = "start"
    /\ \E err \in ApiErrors :
           IF check(err) = "running"
           THEN fetch' = [fetch EXCEPT !.pc = "done",
                              !.info = GetInfo(fetch.resp, fetch.branchname, FetchConfig)]
           ELSE fetch' = [fetch EXCEPT !.pc = check(err)]
    /\ UNCHANGED <<codec, sorter, format, remote, info, pass, calls>>

----------------------------------------------------------------------------
(* The body formatter.  The literal texts of the source are single elements *)
(* of the string; commit bodies and numbers are spelled out in characters.  *)

Space == {" ", "\n", "\t", "\r"}

\* strings.TrimSpace
RECURSIVE TrimLeft(_)
TrimLeft(s) == IF s # <<>> /\ Head(s) \in Space THEN TrimLeft(Tail(s)) ELSE s
RECURSIVE TrimRight(_)
TrimRight(s) ==
    IF s # <<>> /\ s[Len(s)] \in Space THEN TrimRight(SubSeq(s, 1, Len(s) - 1)) ELSE s
TrimSpace(s) == TrimRight(TrimLeft(s))

\* %d of fmt.Sprintf, for a number >= 0
DigitOf(d) == CASE d = 0 -> "0" [] d = 1 -> "1" [] d = 2 -> "2" [] d = 3 -> "3"
                [] d = 4 -> "4" [] d = 5 -> "5" [] d = 6 -> "6" [] d = 7 -> "7"
                [] d = 8 -> "8" [] d = 9 -> "9"
RECURSIVE Itoa(_)
Itoa(n) == IF n < 10 THEN <<DigitOf(n)>> ELSE Itoa(n \div 10) \o <<DigitOf(n % 10)>>

\* One line of formatStackMarkdown: "- #%d%s\n", the suffix (an arrow, written
\* "<-" here) marking the entry whose Commit equals the commit.
StackLine(commit, pr) ==
    <<"-", " ", "#">> \o Itoa(pr.Number)
        \o (IF pr.Commit = commit THEN <<" ", "<-">> ELSE <<>>) \o <<"\n">>

\* A loop that writes the entries from index 0 up.
RECURSIVE formatStackMarkdownForward(_, _)
formatStackMarkdownForward(commit, stack) ==
    IF stack = <<>> THEN <<>>
    ELSE StackLine(commit, Head(stack)) \o formatStackMarkdownForward(commit, Tail(stack))

\* formatStackMarkdown: the loop runs from the last index down to 0.
RECURSIVE formatStackMarkdown(_, _)
formatStackMarkdown(commit, stack) ==
    IF stack = <<>> THEN <<>>
    ELSE StackLine(commit, stack[Len(stack)])
             \o formatStackMarkdown(commit, SubSeq(stack, 1, Len(stack) - 1))

addManualMergeNotice(body) ==
    body \o <<"\n", "\n">>
         \o <<"*Part of a stack created by spr. Do not merge manually using the UI*">>

formatBody(commit, stack) ==
    IF Len(stack) <= 1 THEN TrimSpace(commit.Body)
    ELSE IF commit.Body = <<>>
    THEN <<"**Stack**:", "\n">> \o addManualMergeNotice(formatStackMarkdown(commit, stack))
    ELSE commit.Body \o <<"\n", "\n", "---", "\n", "\n", "**Stack**:", "\n">>
             \o addManualMergeNotice(formatStackMarkdown(commit, stack))

----------------------------------------------------------------------------
(* The formatBody run: the body of a commit is rendered for a stack of up  *)
(* to MaxStack entries.                                                    *)

Bodies == {<<>>, <<"x">>, <<" ", "x", "\n">>}
StackNumbers == {2, 3, 10, 21}
StackIds == {"a", "b", "c", "d"}

CommitOf(c, body) ==
    [CommitID |-> Fp(c), CommitHash |-> <<"h", c>>, Subject |-> <<"s", c>>, Body |-> body]

StackPR(n, c) ==
    [ID |-> n, Number |-> n, Title |-> <<"s", c>>, FromBranch |-> HeadOf(c),
     ToBranch |-> Main, Commit |-> CommitOf(c, <<>>),
     MergeStatus |-> [ChecksPass |-> "fail", ReviewApproved |-> FALSE,
                      NoConflicts |-> FALSE, Stacked |-> FALSE]]

FormatIdle == [pc |-> "idle", commit |-> <<>>, stack |-> <<>>, out |-> <<>>]

FormatInit ==
    \E n \in 0..MaxStack :
        \E nums \in [1..n -> StackNumbers], ids \in [1..n -> StackIds],
           c \in StackIds, body \in Bodies :
            /\ Injective(nums) /\ Injective(ids)
            /\ format = [pc |-> "start", commit |-> CommitOf(c, body),
                         stack |-> [k \in 1..n |-> StackPR(nums[k], ids[k])],
                         out |-> <<>>]

Format ==
    /\ format.pc = "start"
    /\ format' = [format EXCEPT !.pc = "done",
                                !.out = formatBody(format.commit, format.stack)]
    /\ UNCHANGED <<codec, sorter, fetch, remote, info, pass, calls>>

----------------------------------------------------------------------------
(* The remote mutations.  A call either succeeds or fails with an error of  *)
(* the transport; what each handler does with the error is its outcome:     *)
(* "running" when control returns to the caller, "exited" (os.Exit) or      *)
(* "panicked" when it does not.                                             *)

\* log.Fatal()...Msg(): the message is written and os.Exit(1) is called.
logFatal(err) == IF err = "none" THEN "running" ELSE "exited"

\* CreatePullRequest hands the error to check.
CreateOutcome(err) == check(err)

\* An update that only logs the error and returns.
UpdateOutcomeSwallowed(err) == "running"

\* UpdatePullRequest, AddReviewers, CommentPullRequest and ClosePullRequest
\* end in log.Fatal on an error; MergePullRequest too (its check(err) after
\* log.Fatal is reached with no error only).
UpdateOutcome(err) == logFatal(err)
AddReviewersOutcome(err) == logFatal(err)
CommentOutcome(err) == logFatal(err)
MergeOutcome(err) == IF logFatal(err) = "running" THEN check(err) ELSE logFatal(err)
CloseOutcome(err) == logFatal(err)

\* A base branch that is the trunk for every commit.
BaseRefNameTrunkOnly(localBranch, config, inf, prevCommit) ==
    GetRemoteBranchName(localBranch, config)

\* baseRefName of CreatePullRequest: the trunk, or the branch name of the
\* previous commit when there is one (prevCommit is <<>> for nil, else
\* <<commit>>).
CreateBaseRefName(localBranch, config, inf, prevCommit) ==
    IF prevCommit # <<>>
    THEN branchNameFromCommit(inf, prevCommit[1])
    ELSE GetRemoteBranchName(localBranch, config)

\* baseRefName of UpdatePullRequest: computed as in CreatePullRequest.
UpdateBaseRefName(localBranch, config, inf, prevCommit) ==
    IF prevCommit # <<>>
    THEN branchNameFromCommit(inf, prevCommit[1])
    ELSE GetRemoteBranchName(localBranch, config)

\* The input of the create mutation.
CreatePullRequestInput(localBranch, config, inf, commit, prevCommit) ==
    [RepositoryId |-> inf.RepositoryID,
     BaseRefName |-> CreateBaseRefName(localBranch, config, inf, prevCommit),
     HeadRefName |-> branchNameFromCommit(inf, commit),
     Title |-> commit.Subject,
     Body |-> formatBody(commit, inf.PullRequests)]

\* The input of the update mutation.
UpdatePullRequestInput(localBranch, config, inf, pr, commit, prevCommit) ==
    [PullRequestId |-> pr.ID,
     BaseRefName |-> UpdateBaseRefName(localBranch, config, inf, prevCommit),
     Title |-> commit.Subject,
     Body |-> formatBody(commit, inf.PullRequests)]

----------------------------------------------------------------------------
(* The reconciliation passes.  A pass is one run of the program: it fetches *)
(* the snapshot, then creates or updates the pull request of each local     *)
(* commit, oldest first, and may then add reviewers to, comment, merge or   *)
(* close pull requests of the snapshot.                                     *)

\* The three local commits A, B, C, oldest first, with the bodies given.
LocalCommits(bodies) ==
    <<CommitOf("a", bodies[1]), CommitOf("b", bodies[2]), CommitOf("c", bodies[3])>>

NoInfo == [UserName |-> <<>>, RepositoryID |-> "", LocalBranch |-> <<>>,
           PullRequests |-> <<>>]

PassIdle ==
    /\ remote = <<>>
    /\ info = NoInfo
    /\ pass = [pc |-> "idle", no |-> 0, next |-> 0, extra |-> 0,
               branch |-> <<>>, commits |-> <<>>]
    /\ calls = <<>>

PassInit ==
    /\ remote = <<>>
    /\ info = NoInfo
    /\ \E bodies \in [1..3 -> {<<>>, <<"x">>}], branch \in {BranchB, BranchX} :
           pass = [pc |-> "start", no |-> 0, next |-> 0, extra |-> 0,
                   branch |-> branch, commits |-> LocalCommits(bodies)]
    /\ calls = <<>>

Reverse(s) == [k \in 1..Len(s) |-> s[Len(s) + 1 - k]]
IsOpen(node) == node.State = "OPEN"

\* The answer of the pull-requests query: the open pull requests of the
\* viewer, in an order the remote chooses.
PullRequestsResponse(nodes) ==
    [Login |-> UserU, RepositoryId |-> "R1", Nodes |-> nodes]

\* The pull request of the snapshot whose fingerprint is the commit's: its
\* index in info.PullRequests, 0 when there is none.
FindPR(inf, commit) ==
    LET found == {k \in 1..Len(inf.PullRequests) :
                      inf.PullRequests[k].Commit.CommitID = commit.CommitID}
    IN  IF found = {} THEN 0 ELSE Min(found)

PrevCommit(i) == IF i = 1 THEN <<>> ELSE <<pass.commits[i - 1]>>

Reconciling == pass.pc = "running" /\ pass.next <= Len(pass.commits)

Call(op, number, commit, input, err) ==
    [op |-> op, number |-> number, commit |-> commit, input |-> input,
     failed |-> err # "none"]

\* A run of the program starts: GetInfo.
StartPass ==
    /\ pass.pc \in {"start", "running", "exited", "panicked"}
    /\ pass.pc = "running" => pass.next > Len(pass.commits)
    /\ pass.no < MaxPasses
    /\ calls' = <<>>
    /\ UNCHANGED remote
    /\ \E err \in ApiErrors, nodes \in {SelectSeq(remote, IsOpen),
                                        Reverse(SelectSeq(remote, IsOpen))} :
           IF check(err) = "running"
           THEN /\ info' = GetInfo(PullRequestsResponse(nodes), pass.branch, FetchConfig)
                /\ pass' = [pass EXCEPT !.pc = "running", !.no = @ + 1,
                                        !.next = 1, !.extra = 0]
           ELSE /\ info' = NoInfo
                /\ pass' = [pass EXCEPT !.pc = check(err), !.no = @ + 1,
                                        !.next = 1, !.extra = 0]
    /\ UNCHANGED <<codec, sorter, fetch, format>>

\* The driver finds no pull request for the next commit: CreatePullRequest.
CreatePullRequest ==
    /\ Reconciling
    /\ FindPR(info, pass.commits[pass.next]) = 0
    /\ LET commit == pass.commits[pass.next]
           input == CreatePullRequestInput(pass.branch, FetchConfig, info, commit,
                                           PrevCommit(pass.next))
           number == Len(remote) + 1
       IN  \E err \in ApiErrors :
             /\ calls' = Append(calls, Call("create", number, pass.next, input, err))
             /\ IF err = "none"
                THEN remote' = Append(remote,
                         [Id |-> number, Number |-> number, Title |-> input.Title,
                          HeadRefName |-> input.HeadRefName,
                          BaseRefName |-> input.BaseRefName,
                          RepositoryId |-> input.RepositoryId,
                          Commit |-> [Oid |-> commit.CommitHash,
                                      MessageHeadline |-> commit.Subject,
                                      MessageBody |-> commit.Body,
                                      StatusCheckRollup |-> "nil"],
                          ReviewDecision |-> "nil", Mergeable |-> "MERGEABLE",
                          Body |-> input.Body, State |-> "OPEN"])
                ELSE UNCHANGED remote
             /\ pass' = [pass EXCEPT !.pc = CreateOutcome(err),
                                     !.next = IF CreateOutcome(err) = "running"
                                              THEN @ + 1 ELSE @]
    /\ UNCHANGED <<codec, sorter, fetch, format, info>>

\* The driver finds the pull request of the next commit: UpdatePullRequest.
UpdatePullRequest ==
    /\ Reconciling
    /\ FindPR(info, pass.commits[pass.next]) # 0
    /\ LET commit == pass.commits[pass.next]
           pr == info.PullRequests[FindPR(info, commit)]
           input == UpdatePullRequestInput(pass.branch, FetchConfig, info, pr, commit,
                                           PrevCommit(pass.next))
       IN  \E err \in ApiErrors :
             /\ calls' = Append(calls, Call("update", pr.Number, pass.next, input, err))
             /\ IF err = "none"
                THEN remote' = [remote EXCEPT ![input.PullRequestId] =
                                   [@ EXCEPT !.BaseRefName = input.BaseRefName,
                                             !.Title = input.Title,
                                             !.Body = input.Body]]
                ELSE UNCHANGED remote
             /\ pass' = [pass EXCEPT !.pc = UpdateOutcome(err),
                                     !.next = IF UpdateOutcome(err) = "running"
                                              THEN @ + 1 ELSE @]
    /\ UNCHANGED <<codec, sorter, fetch, format, info>>

\* A mutation of a pull request of the snapshot that is no create or update:
\* up to MaxExtraCalls of them, once the commits are reconciled.
Mutating ==
    /\ pass.pc = "running"
    /\ pass.next > Len(pass.commits)
    /\ pass.extra < MaxExtraCalls

AddReviewers ==
    /\ Mutating
    /\ \E k \in 1..Len(info.PullRequests), err \in ApiErrors :
         /\ calls' = Append(calls, Call("add reviewers", info.PullRequests[k].Number, 0,
                                        [PullRequestId |-> info.PullRequests[k].ID], err))
         /\ pass' = [pass EXCEPT !.pc = AddReviewersOutcome(err), !.extra = @ + 1]
    /\ UNCHANGED <<codec, sorter, fetch, format, info, remote>>

CommentPullRequest ==
    /\ Mutating
    /\ \E k \in 1..Len(info.PullRequests), err \in ApiErrors :
         /\ calls' = Append(calls, Call("comment", info.PullRequests[k].Number, 0,
                                        [SubjectId |-> info.PullRequests[k].ID], err))
         /\ pass' = [pass EXCEPT !.pc = CommentOutcome(err), !.extra = @ + 1]
    /\ UNCHANGED <<codec, sorter, fetch, format, info, remote>>

MergePullRequest ==
    /\ Mutating
    /\ \E k \in 1..Len(info.PullRequests), err \in ApiErrors :
         /\ calls' = Append(calls, Call("merge", info.PullRequests[k].Number, 0,
                                        [PullRequestId |-> info.PullRequests[k].ID], err))
         /\ remote' = IF err = "none"
                      THEN [remote EXCEPT ![info.PullRequests[k].ID].State = "MERGED"]
                      ELSE remote
         /\ pass' = [pass EXCEPT !.pc = MergeOutcome(err), !.extra = @ + 1]
    /\ UNCHANGED <<codec, sorter, fetch, format, info>>

ClosePullRequest ==
    /\ Mutating
    /\ \E k \in 1..Len(info.PullRequests), err \in ApiErrors :
         /\ calls' = Append(calls, Call("close", info.PullRequests[k].Number, 0,
                                        [PullRequestId |-> info.PullRequests[k].ID], err))
         /\ remote' = IF err = "none"
                      THEN [remote EXCEPT ![info.PullRequests[k].ID].State = "CLOSED"]
                      ELSE remote
         /\ pass' = [pass EXCEPT !.pc = CloseOutcome(err), !.extra = @ + 1]
    /\ UNCHANGED <<codec, sorter, fetch, format, info>>

----------------------------------------------------------------------------
(* The specifications.                                                     *)

SpecCodecInit ==
    /\ CodecInit
    /\ sorter = SorterIdle /\ fetch = FetchIdle /\ format = FormatIdle /\ PassIdle
SpecCodecNext == Encode \/ Decode
SpecCodec == SpecCodecInit /\ [][SpecCodecNext]_vars

SpecSortInit ==
    /\ SorterInit
    /\ codec = CodecIdle /\ fetch = FetchIdle /\ format = FormatIdle /\ PassIdle
SpecSortNext == Sort
SpecSort == SpecSortInit /\ [][SpecSortNext]_vars

SpecFetchInit ==
    /\ FetchInit
    /\ codec = CodecIdle /\ sorter = SorterIdle /\ format = FormatIdle /\ PassIdle
SpecFetchNext == Fetch
SpecFetch == SpecFetchInit /\ [][SpecFetchNext]_vars

SpecFormatInit ==
    /\ FormatInit
    /\ codec = CodecIdle /\ sorter = SorterIdle /\ fetch = FetchIdle /\ PassIdle
SpecFormatNext == Format
SpecFormat == SpecFormatInit /\ [][SpecFormatNext]_vars

SpecPassInit ==
    /\ PassInit
    /\ codec = CodecIdle /\ sorter = SorterIdle /\ fetch = FetchIdle
    /\ format = FormatIdle
SpecPassNext ==
    \/ StartPass
    \/ CreatePullRequest
    \/ UpdatePullRequest
    \/ AddReviewers
    \/ CommentPullRequest
    \/ MergePullRequest
    \/ ClosePullRequest
SpecPass == SpecPassInit /\ [][SpecPassNext]_vars

----------------------------------------------------------------------------
(* Claims.                                                                 *)

\* C7: decoding the name that branchNameFromCommit builds from a user name, a
\* local branch name and a fingerprint gives back exactly the local branch
\* name and the fingerprint.
C7_RoundTrip ==
    codec.pc = "decoded" =>
        /\ codec.matches # <<>>
        /\ codec.matches[2] = codec.LocalBranch
        /\ codec.matches[3] = codec.CommitID

\* C7 witness: a local branch name that contains "/" and begins like an
\* encoded name has been encoded and decoded.
C7_Witness ==
    /\ codec.pc = "decoded"
    /\ codec.LocalBranch = <<"p", "r", "/">>
    /\ codec.matches # <<>>

\* The slice is one connected chain ending at the trunk: some arrangement of
\* all its entries starts at the trunk and links each ToBranch to the
\* FromBranch of the entry before, the head branches being distinct.
IsChainOrder(prs, trunk) ==
    /\ Len(prs) > 0 => prs[1].ToBranch = trunk
    /\ \A k \in 2..Len(prs) : prs[k].ToBranch = prs[k-1].FromBranch

Arrangements(n) == {f \in [1..n -> 1..n] : Injective(f)}

IsChain(prs, trunk) ==
    /\ \A a, b \in 1..Len(prs) : a # b => prs[a].FromBranch # prs[b].FromBranch
    /\ \A a \in 1..Len(prs) : prs[a].FromBranch # trunk
    /\ \E f \in Arrangements(Len(prs)) :
           IsChainOrder([k \in 1..Len(prs) |-> prs[f[k]]], trunk)

\* C1: a slice that is one connected chain ending at the trunk, in any initial
\* order, is returned with output[0].ToBranch = trunk and every later entry's
\* ToBranch equal to the FromBranch of the entry before it.
C1_ChainOrdered ==
    (sorter.pc = "sorted" /\ IsChain(sorter.prs, Main)) =>
        /\ Len(sorter.out) = Len(sorter.prs)
        /\ IsChainOrder(sorter.out, Main)

\* C1 witness: a chain of three entries given in an order that is not the
\* chain order has been sorted.
C1_Witness ==
    /\ sorter.pc = "sorted"
    /\ Len(sorter.prs) = 3
    /\ IsChain(sorter.prs, Main)
    /\ sorter.prs[3].ToBranch = Main
    /\ sorter.prs[1].ToBranch = sorter.prs[2].FromBranch

\* The number of leading entries of the output that are linked from the trunk.
ChainLen(out, trunk) ==
    Max({k \in 0..Len(out) : IsChainOrder(SubSeq(out, 1, k), trunk)})

\* The output holds exactly the entries of the input (Number is the position
\* in the input), the Stacked flag apart.
SameEntries(prs, out) ==
    /\ Len(out) = Len(prs)
    /\ {out[k].Number : k \in 1..Len(out)} = 1..Len(prs)
    /\ \A k \in 1..Len(out) :
           [out[k] EXCEPT !.MergeStatus.Stacked = FALSE] = prs[out[k].Number]

\* The entries after the linked prefix: none of them has the branch the chain
\* stopped at as its ToBranch.
RestUnlinked(out, trunk) ==
    LET m == ChainLen(out, trunk)
        last == IF m = 0 THEN trunk ELSE out[m].FromBranch
    IN  \A k \in (m + 1)..Len(out) : out[k].ToBranch # last

\* C9 as stated: on a broken chain the linked entries come first in chain
\* order and the entries no scan matched follow in their original relative
\* order.
C9_RestKeepsInputOrder ==
    sorter.pc = "sorted" =>
        /\ SameEntries(sorter.prs, sorter.out)
        /\ RestUnlinked(sorter.out, Main)
        /\ \A a, b \in (ChainLen(sorter.out, Main) + 1)..Len(sorter.out) :
               a < b => sorter.out[a].Number < sorter.out[b].Number

\* C9 amended: on a broken chain sortPullRequests returns all the entries, the
\* ones its scans matched first in chain order, the entries no scan matched
\* after them (none of them continues the chain), in the order the swaps left
\* them.
C9_LinkedFirstRestAfter ==
    sorter.pc = "sorted" =>
        /\ SameEntries(sorter.prs, sorter.out)
        /\ RestUnlinked(sorter.out, Main)

\* C9 witness: a broken chain with one linked entry and two unmatched ones,
\* which the swap has left in the reverse of their input order.
C9_Witness ==
    /\ sorter.pc = "sorted"
    /\ Len(sorter.out) = 3
    /\ ChainLen(sorter.out, Main) = 1
    /\ sorter.out[2].Number > sorter.out[3].Number

\* The three merge signals of an entry all hold.
AllSignals(pr) ==
    /\ pr.MergeStatus.ChecksPass = "pass"
    /\ pr.MergeStatus.ReviewApproved
    /\ pr.MergeStatus.NoConflicts

FetchedPRs == fetch.info.PullRequests
FetchTarget == IF fetch.branchname \in FetchConfig.RemoteBranches
               THEN fetch.branchname ELSE Main

\* C2: in the list of a snapshot, an entry is Stacked exactly when it and all
\* the entries before it are ready; so the Stacked entries are a prefix.
C2_StackedIsReadyPrefix ==
    fetch.pc = "done" =>
        /\ \A k \in 1..Len(FetchedPRs) :
               FetchedPRs[k].MergeStatus.Stacked
                   <=> \A j \in 1..k : AllSignals(FetchedPRs[j])
        /\ \A k, j \in 1..Len(FetchedPRs) :
               (k < j /\ ~FetchedPRs[k].MergeStatus.Stacked)
                   => ~FetchedPRs[j].MergeStatus.Stacked

\* C2 witness: a snapshot whose first entry is not ready and whose second
\* entry is ready, and so is not Stacked.
C2_Witness ==
    /\ fetch.pc = "done"
    /\ Len(FetchedPRs) = 2
    /\ ~AllSignals(FetchedPRs[1])
    /\ AllSignals(FetchedPRs[2])
    /\ ~FetchedPRs[2].MergeStatus.Stacked

\* C6: a pull request of the response is in the snapshot only if its head
\* branch decodes and the local branch decoded is the active one; the others
\* are left out and the fetch completes.
C6_OnlyActiveBranch ==
    fetch.pc = "done" =>
        \A k \in 1..Len(FetchedPRs) :
            \E n \in 1..Len(fetch.resp.Nodes) :
                /\ fetch.resp.Nodes[n].Number = FetchedPRs[k].Number
                /\ fetch.resp.Nodes[n].HeadRefName = FetchedPRs[k].FromBranch
                /\ FindStringSubmatch(FetchedPRs[k].FromBranch) # <<>>
                /\ FindStringSubmatch(FetchedPRs[k].FromBranch)[2] = fetch.branchname

\* C6 witness: the response holds a head branch that does not decode and one
\* that decodes to another local branch; the snapshot is built without them.
C6_Witness ==
    /\ fetch.pc = "done"
    /\ Len(fetch.resp.Nodes) = 2
    /\ FindStringSubmatch(fetch.resp.Nodes[1].HeadRefName) = <<>>
    /\ FindStringSubmatch(fetch.resp.Nodes[2].HeadRefName) # <<>>
    /\ FindStringSubmatch(fetch.resp.Nodes[2].HeadRefName)[2] # fetch.branchname
    /\ FetchedPRs = <<>>

\* C10 as stated: an entry that sortPullRequests could not link from the
\* trunk is never Stacked.
C10_UnlinkedNeverStacked ==
    fetch.pc = "done" =>
        \A k \in (ChainLen(FetchedPRs, FetchTarget) + 1)..Len(FetchedPRs) :
            ~FetchedPRs[k].MergeStatus.Stacked

\* C10 amended: an entry that sortPullRequests could not link from the trunk
\* is Stacked exactly when it and every entry before it in the output are
\* ready; being unlinked does not make it ineligible.
C10_UnlinkedStackedWhenReady ==
    fetch.pc = "done" =>
        \A k \in (ChainLen(FetchedPRs, FetchTarget) + 1)..Len(FetchedPRs) :
            FetchedPRs[k].MergeStatus.Stacked
                <=> \A j \in 1..k : AllSignals(FetchedPRs[j])

\* C10 witness: no entry of the snapshot has the trunk as its ToBranch, and
\* the first entry, ready, is Stacked.
C10_Witness ==
    /\ fetch.pc = "done"
    /\ Len(FetchedPRs) = 2
    /\ ChainLen(FetchedPRs, FetchTarget) = 0
    /\ FetchedPRs[1].MergeStatus.Stacked

\* The positions of the rendered body at which the line of number n starts:
\* "- #", the digits of n, then the end of the line or the marker.
LineStarts(out, n) ==
    LET line == <<"-", " ", "#">> \o Itoa(n) IN
    { i \in 1..Len(out) :
        /\ i + Len(line) <= Len(out)
        /\ SubSeq(out, i, i + Len(line) - 1) = line
        /\ out[i + Len(line)] \in {"\n", " "} }

EveryEntryHasOneLine ==
    \A k \in 1..Len(format.stack) :
        Cardinality(LineStarts(format.out, format.stack[k].Number)) = 1

LineOf(k) == CHOOSE i \in LineStarts(format.out, format.stack[k].Number) : TRUE

\* C5 as stated: for a stack of two or more entries the list goes from the
\* trunk-adjacent entry (index 0) at the top to the most recent at the bottom.
C5_TrunkAdjacentFirst ==
    (format.pc = "done" /\ Len(format.stack) >= 2) =>
        /\ EveryEntryHasOneLine
        /\ \A a, b \in 1..Len(format.stack) : a < b => LineOf(a) < LineOf(b)

\* C5 amended: for a stack of two or more entries the list goes from the most
\* recent entry (last index) at the top to the trunk-adjacent entry (index 0)
\* at the bottom.
C5_MostRecentFirst ==
    (format.pc = "done" /\ Len(format.stack) >= 2) =>
        /\ EveryEntryHasOneLine
        /\ \A a, b \in 1..Len(format.stack) : a < b => LineOf(a) > LineOf(b)

\* C5 witness: a stack of three entries has been rendered under a commit
\* body, the line of the last entry first.
C5_Witness ==
    /\ format.pc = "done"
    /\ Len(format.stack) = 3
    /\ format.commit.Body # <<>>
    /\ EveryEntryHasOneLine
    /\ LineOf(3) < LineOf(1)

\* The head branch name pr/<user>/<local-branch>/<fingerprint> of the i-th
\* local commit, and the trunk of the local branch.
DerivedHead(i) ==
    <<"p", "r", "/">> \o UserU \o <<"/">> \o pass.branch \o <<"/">>
        \o pass.commits[i].CommitID
TrunkOf(branch) == IF branch = BranchX THEN BranchX ELSE Main

IsReconcileCall(call) == call.op \in {"create", "update"}

\* C3: the base branch sent for the first local commit is the trunk, and for
\* every later commit it is the head branch name derived for the commit just
\* before it; the head sent with a create is the name derived for the commit.
C3_BaseIsPreviousHead ==
    \A k \in 1..Len(calls) :
        IsReconcileCall(calls[k]) =>
            /\ calls[k].commit = 1 => calls[k].input.BaseRefName = TrunkOf(pass.branch)
            /\ calls[k].commit > 1 =>
                   calls[k].input.BaseRefName = DerivedHead(calls[k].commit - 1)
            /\ calls[k].op = "create" =>
                   calls[k].input.HeadRefName = DerivedHead(calls[k].commit)

\* C3 witness: a pass has created the pull request of A and updated those of
\* B and C, none of the calls failing.
C3_Witness ==
    /\ Len(calls) = 3
    /\ calls[1].op = "update" /\ calls[2].op = "update" /\ calls[3].op = "create"
    /\ \A k \in 1..3 : calls[k].commit = k /\ ~calls[k].failed

\* What the remote stores of the pull requests that a reconciliation sets.
Reconciled(nodes) ==
    [n \in 1..Len(nodes) |->
        <<nodes[n].BaseRefName, nodes[n].Title, nodes[n].Body>>]

\* C4: after a first pass that created the pull requests of A, B and C, a
\* second pass on a fresh snapshot leaves the base branch, the title and the
\* body of every pull request as they were.
C4_RerunChangesNothing ==
    [][ ( /\ pass.no = 2 /\ pass.pc = "running" /\ pass'.pc = "running"
          /\ Len(info.PullRequests) = 3
          /\ pass.next <= 3 /\ pass'.next = pass.next + 1 )
        => Reconciled(remote') = Reconciled(remote) ]_vars

\* C8: a call that failed is the last call of its process, and the process
\* has ended: no mutation follows a failed one.
C8_FailureEndsThePass ==
    /\ \A k \in 1..(Len(calls) - 1) : ~calls[k].failed
    /\ (calls # <<>> /\ calls[Len(calls)].failed) => pass.pc \in {"exited", "panicked"}

\* C8 witness: the update of the second commit failed after the first went
\* through, and the process has exited with commit C not reconciled.
C8_Witness ==
    /\ Len(calls) = 2
    /\ calls[2].op = "update" /\ calls[2].failed /\ ~calls[1].failed
    /\ pass.pc = "exited"
    /\ pass.next = 2

====
